---- MODULE Spec2Model ----
(***************************************************************************)
(* COLMAP binary loader (examples/bin-loader/src/main.ts): the camera      *)
(* model registry, the three decoders readCamerasBinary,                   *)
(* readPoints3DBinary and readImagesBinary over byte buffers read through  *)
(* a DataView, and COLMAPLoader.load with its three fetches.               *)
(*                                                                         *)
(* A buffer is a sequence of bytes (0..255); offsets are 0-based as in the *)
(* source, so the byte at offset o is buf[o + 1].  A JavaScript exception  *)
(* is the outcome [threw |-> TRUE, error |-> e]; a normal return is        *)
(* [threw |-> FALSE, value |-> v].  Integers read from the buffer are kept *)
(* below 2^31 by the inputs (TLC's integers are 32 bits wide).             *)
(***************************************************************************)
EXTENDS Integers, Sequences, FiniteSets, TLC

\* Bounds of the inputs.
MaxRecords == 2
MaxNameLen == 1
MaxTrack == 1
MaxLoaded == 1

(***************************************************************************)
(* JavaScript outcomes and errors.  A message is the sequence of the       *)
(* string pieces it is concatenated from.                                  *)
(***************************************************************************)
Return(v) == [threw |-> FALSE, value |-> v]

Throw(e) == [threw |-> TRUE, error |-> e]

RangeError == [name |-> "RangeError", message |-> <<"Offset is outside the bounds of the DataView">>]

UndefinedPropertyError == [name |-> "TypeError", message |-> <<"Cannot read properties of undefined">>]

DataViewTypeError == [name |-> "TypeError", message |-> <<"First argument to DataView constructor must be an ArrayBuffer">>]

\* "prefix" + e : the string form of e is its name, ": " and its message.
ErrorConcat(prefix, e) == [name |-> "Error", message |-> <<prefix, e.name, ": ">> \o e.message]

\* The value undefined (a missing property), and the test for it.
Undefined == [undefined |-> TRUE]

IsUndefined(x) == "undefined" \in DOMAIN x

\* An ArrayBuffer holding the given bytes.
ArrayBuffer(bytes) == [bytes |-> bytes]

(***************************************************************************)
(* The camera model registry.                                              *)
(***************************************************************************)
CAMERA_MODELS ==
    << [model_id |-> 0, model_name |-> "SIMPLE_PINHOLE", num_params |-> 3],
       [model_id |-> 1, model_name |-> "PINHOLE", num_params |-> 4],
       [model_id |-> 2, model_name |-> "SIMPLE_RADIAL", num_params |-> 4],
       [model_id |-> 3, model_name |-> "RADIAL", num_params |-> 5],
       [model_id |-> 4, model_name |-> "OPENCV", num_params |-> 8],
       [model_id |-> 5, model_name |-> "OPENCV_FISHEYE", num_params |-> 8],
       [model_id |-> 6, model_name |-> "FULL_OPENCV", num_params |-> 12],
       [model_id |-> 7, model_name |-> "FOV", num_params |-> 5],
       [model_id |-> 8, model_name |-> "SIMPLE_RADIAL_FISHEYE", num_params |-> 4],
       [model_id |-> 9, model_name |-> "RADIAL_FISHEYE", num_params |-> 5],
       [model_id |-> 10, model_name |-> "THIN_PRISM_FISHEYE", num_params |-> 12] >>

\* CAMERA_MODELS.forEach(m => CAMERA_MODEL_IDS[m.model_id] = m): a later entry
\* with the same id overwrites an earlier one.
CAMERA_MODEL_IDS ==
    [id \in {CAMERA_MODELS[k].model_id : k \in DOMAIN CAMERA_MODELS} |->
        LET ks == {k \in DOMAIN CAMERA_MODELS : CAMERA_MODELS[k].model_id = id}
            last == CHOOSE k \in ks : \A k2 \in ks : k2 <= k
        IN  CAMERA_MODELS[last]]

\* A faulty LookupModel: an unknown id silently defaults to model 0.
LookupModelDefault(modelId) ==
    IF modelId \in DOMAIN CAMERA_MODEL_IDS THEN CAMERA_MODEL_IDS[modelId] ELSE CAMERA_MODEL_IDS[0]

\* CAMERA_MODEL_IDS[Number(modelId)]: the entry, or undefined.
LookupModel(modelId) ==
    IF modelId \in DOMAIN CAMERA_MODEL_IDS THEN CAMERA_MODEL_IDS[modelId] ELSE Undefined

(***************************************************************************)
(* DataView reads, little-endian.                                          *)
(***************************************************************************)
\* The bounds check every DataView getter performs.
InBounds(buf, offset, width) == offset >= 0 /\ offset + width <= Len(buf)

BytesAt(buf, offset, width) == [k \in 1..width |-> buf[offset + k]]

\* Integers of 2^31 and above are all represented by OutOfRange (and those
\* below -2^31 by its negation): the inputs stay inside the range.
OutOfRange == 2147483647

\* The bytes hold an unsigned value below 2^31.
FitsInt(bytes) ==
    \A k \in DOMAIN bytes : (k > 4 => bytes[k] = 0) /\ (k = 4 => bytes[k] < 128)

ByteOr0(bytes, k) == IF k \in DOMAIN bytes THEN bytes[k] ELSE 0

\* The unsigned value of little-endian bytes.
UnsignedLE(bytes) ==
    IF FitsInt(bytes)
    THEN ByteOr0(bytes, 1) + 256 * ByteOr0(bytes, 2) + 65536 * ByteOr0(bytes, 3)
            + 16777216 * ByteOr0(bytes, 4)
    ELSE OutOfRange

\* The two's-complement value of little-endian bytes.
SignedLE(bytes) ==
    IF bytes[Len(bytes)] >= 128
    THEN LET complement == [k \in DOMAIN bytes |-> 255 - bytes[k]]
         IN  IF FitsInt(complement) THEN 0 - (1 + UnsignedLE(complement)) ELSE 0 - OutOfRange
    ELSE UnsignedLE(bytes)

\* A float64 value: [float64 |-> v] for the values tabulated below, and
\* [float64bits |-> bytes] for any other bit pattern.
F(v) == [float64 |-> v]

\* The float64 values the inputs use, with their IEEE 754 bytes (little-endian).
Float64Bytes ==
    [v \in {0, 1, 2, 3, 540, 960, 1000, -1} |->
        CASE v = 0    -> <<0, 0, 0, 0, 0, 0, 0, 0>>
          [] v = 1    -> <<0, 0, 0, 0, 0, 0, 240, 63>>
          [] v = 2    -> <<0, 0, 0, 0, 0, 0, 0, 64>>
          [] v = 3    -> <<0, 0, 0, 0, 0, 0, 8, 64>>
          [] v = 540  -> <<0, 0, 0, 0, 0, 224, 128, 64>>
          [] v = 960  -> <<0, 0, 0, 0, 0, 0, 142, 64>>
          [] v = 1000 -> <<0, 0, 0, 0, 0, 64, 143, 64>>
          [] v = -1   -> <<0, 0, 0, 0, 0, 0, 240, 191>>]

\* The float64 with the given bytes.
Float64Of(bytes) ==
    IF \E v \in DOMAIN Float64Bytes : Float64Bytes[v] = bytes
    THEN F(CHOOSE v \in DOMAIN Float64Bytes : Float64Bytes[v] = bytes)
    ELSE [float64bits |-> bytes]

getUint8(buf, offset) ==
    IF InBounds(buf, offset, 1) THEN Return(buf[offset + 1]) ELSE Throw(RangeError)

getInt32(buf, offset) ==
    IF InBounds(buf, offset, 4) THEN Return(SignedLE(BytesAt(buf, offset, 4))) ELSE Throw(RangeError)

\* A faulty getBigInt64: the bytes are read as an unsigned integer.
getBigInt64Unsigned(buf, offset) ==
    IF InBounds(buf, offset, 8) THEN Return(UnsignedLE(BytesAt(buf, offset, 8))) ELSE Throw(RangeError)

getBigInt64(buf, offset) ==
    IF InBounds(buf, offset, 8) THEN Return(SignedLE(BytesAt(buf, offset, 8))) ELSE Throw(RangeError)

getBigUint64(buf, offset) ==
    IF InBounds(buf, offset, 8) THEN Return(UnsignedLE(BytesAt(buf, offset, 8))) ELSE Throw(RangeError)

\* A faulty getFloat64: a read past the end yields 0 instead of raising.
getFloat64Unchecked(buf, offset) ==
    IF InBounds(buf, offset, 8) THEN Return(Float64Of(BytesAt(buf, offset, 8))) ELSE Return(F(0))

getFloat64(buf, offset) ==
    IF InBounds(buf, offset, 8) THEN Return(Float64Of(BytesAt(buf, offset, 8))) ELSE Throw(RangeError)

\* obj[key] = value on a dictionary.
Put(map, key, value) == [k \in (DOMAIN map) \cup {key} |-> IF k = key THEN value ELSE map[k]]

\* The empty dictionary {}.
EmptyMap == <<>>

(***************************************************************************)
(* readCamerasBinary                                                       *)
(***************************************************************************)
\* A faulty ReadParams: the loop stops one param early.
RECURSIVE ReadParamsOneShort(_, _, _, _, _)
ReadParamsOneShort(buf, offset, j, numParams, params) ==
    IF ~(j < numParams - 1) THEN Return([params |-> params, offset |-> offset])
    ELSE LET p == getFloat64(buf, offset)
         IN  IF p.threw THEN p
             ELSE ReadParamsOneShort(buf, offset + 8, j + 1, numParams, Append(params, p.value))

\* for (let j = 0; j < numParams; j++) { params.push(getFloat64(offset)); offset += 8 }
\* Returns [params, offset].
RECURSIVE ReadParams(_, _, _, _, _)
ReadParams(buf, offset, j, numParams, params) ==
    IF ~(j < numParams) THEN Return([params |-> params, offset |-> offset])
    ELSE LET p == getFloat64(buf, offset)
         IN  IF p.threw THEN p
             ELSE ReadParams(buf, offset + 8, j + 1, numParams, Append(params, p.value))

\* A faulty CamerasCountCheck: the check is missing.
CamerasNoCountCheck(cameras, numCameras) == Return(cameras)

\* A faulty CamerasCountCheck: only a surplus of entries is an error.
CamerasCountCheckSurplus(cameras, numCameras) ==
    IF Cardinality(DOMAIN cameras) > numCameras
    THEN Throw([name |-> "Error", message |-> <<"Number of cameras does not match">>])
    ELSE Return(cameras)

\* The closing check of readCamerasBinary.
CamerasCountCheck(cameras, numCameras) ==
    IF Cardinality(DOMAIN cameras) # numCameras
    THEN Throw([name |-> "Error", message |-> <<"Number of cameras does not match">>])
    ELSE Return(cameras)

\* for (let i = 0; i < numCameras; i++) { ... }, then the closing check.
RECURSIVE CamerasLoop(_, _, _, _, _)
CamerasLoop(buf, numCameras, i, offset, cameras) ==
    IF ~(i < numCameras) THEN CamerasCountCheck(cameras, numCameras)
    ELSE
    LET cameraId == getInt32(buf, offset)
        modelId  == getInt32(buf, offset + 4)
        width    == getBigInt64(buf, offset + 8)
        height   == getBigInt64(buf, offset + 16)
    IN  IF cameraId.threw THEN cameraId
        ELSE IF modelId.threw THEN modelId
        ELSE IF width.threw THEN width
        ELSE IF height.threw THEN height
        ELSE
        LET model == LookupModel(modelId.value)
        IN  IF IsUndefined(model) THEN Throw(UndefinedPropertyError)
            ELSE
            LET read == ReadParams(buf, offset + 24, 0, model.num_params, <<>>)
            IN  IF read.threw THEN read
                ELSE CamerasLoop(buf, numCameras, i + 1, read.value.offset,
                        Put(cameras, cameraId.value,
                            [id |-> cameraId.value,
                             model |-> model.model_name,
                             width |-> width.value,
                             height |-> height.value,
                             params |-> read.value.params]))

readCamerasBinary(buffer) ==
    IF IsUndefined(buffer) THEN Throw(DataViewTypeError)
    ELSE LET buf == buffer.bytes
             numCameras == getBigUint64(buf, 0)
         IN  IF numCameras.threw THEN numCameras
             ELSE CamerasLoop(buf, numCameras.value, 0, 8, EmptyMap)

(***************************************************************************)
(* readPoints3DBinary                                                      *)
(***************************************************************************)
\* A faulty ReadTrack: point2DIdx is pushed only when it is not 0.
RECURSIVE ReadTrackSkipZero(_, _, _, _, _, _)
ReadTrackSkipZero(buf, offset, j, trackLength, imageIds, point2DIdxs) ==
    IF ~(j < trackLength)
    THEN Return([imageIds |-> imageIds, point2DIdxs |-> point2DIdxs, offset |-> offset])
    ELSE LET imageId    == getInt32(buf, offset)
             point2DIdx == getInt32(buf, offset + 4)
         IN  IF imageId.threw THEN imageId
             ELSE IF point2DIdx.threw THEN point2DIdx
             ELSE ReadTrackSkipZero(buf, offset + 8, j + 1, trackLength,
                            Append(imageIds, imageId.value),
                            IF point2DIdx.value = 0 THEN point2DIdxs
                            ELSE Append(point2DIdxs, point2DIdx.value))

\* for (let j = 0; j < trackLength; j++) { imageId, point2DIdx, push, push }
\* Returns [imageIds, point2DIdxs, offset].
RECURSIVE ReadTrack(_, _, _, _, _, _)
ReadTrack(buf, offset, j, trackLength, imageIds, point2DIdxs) ==
    IF ~(j < trackLength)
    THEN Return([imageIds |-> imageIds, point2DIdxs |-> point2DIdxs, offset |-> offset])
    ELSE LET imageId    == getInt32(buf, offset)
             point2DIdx == getInt32(buf, offset + 4)
         IN  IF imageId.threw THEN imageId
             ELSE IF point2DIdx.threw THEN point2DIdx
             ELSE ReadTrack(buf, offset + 8, j + 1, trackLength,
                            Append(imageIds, imageId.value),
                            Append(point2DIdxs, point2DIdx.value))

\* for (let i = 0; i < numPoints; i++) { ... } return points3D
RECURSIVE PointsLoop(_, _, _, _, _)
PointsLoop(buf, numPoints, i, offset, points3D) ==
    IF ~(i < numPoints) THEN Return(points3D)
    ELSE
    LET point3DId   == getBigUint64(buf, offset)
        x           == getFloat64(buf, offset + 8)
        y           == getFloat64(buf, offset + 16)
        z           == getFloat64(buf, offset + 24)
        r           == getUint8(buf, offset + 32)
        g           == getUint8(buf, offset + 33)
        b           == getUint8(buf, offset + 34)
        error       == getFloat64(buf, offset + 35)
        trackLength == getBigUint64(buf, offset + 43)
    IN  IF point3DId.threw THEN point3DId
        ELSE IF x.threw THEN x
        ELSE IF y.threw THEN y
        ELSE IF z.threw THEN z
        ELSE IF r.threw THEN r
        ELSE IF g.threw THEN g
        ELSE IF b.threw THEN b
        ELSE IF error.threw THEN error
        ELSE IF trackLength.threw THEN trackLength
        ELSE
        LET track == ReadTrack(buf, offset + 51, 0, trackLength.value, <<>>, <<>>)
        IN  IF track.threw THEN track
            ELSE PointsLoop(buf, numPoints, i + 1, track.value.offset,
                    Put(points3D, point3DId.value,
                        [id |-> point3DId.value,
                         xyz |-> <<x.value, y.value, z.value>>,
                         rgb |-> <<r.value, g.value, b.value>>,
                         error |-> error.value,
                         imageIds |-> track.value.imageIds,
                         point2DIdxs |-> track.value.point2DIdxs]))

\* The body of the try block of readPoints3DBinary.
Points3DBody(buffer) ==
    IF IsUndefined(buffer) THEN Throw(DataViewTypeError)
    ELSE LET buf == buffer.bytes
             numPoints == getBigUint64(buf, 0)
         IN  IF numPoints.threw THEN numPoints
             ELSE PointsLoop(buf, numPoints.value, 0, 8, EmptyMap)

\* catch (e) { throw new Error("Error reading points3D.bin. Original error - " + e) }
Points3DCatch(e) == Throw(ErrorConcat("Error reading points3D.bin. Original error - ", e))

readPoints3DBinary(buffer) ==
    LET body == Points3DBody(buffer)
    IN  IF body.threw THEN Points3DCatch(body.error) ELSE body

(***************************************************************************)
(* readImagesBinary                                                        *)
(***************************************************************************)
\* for (let j = 0; j < 9; j++): j = 0 and j = 8 read an int32, the rest a float64.
\* Returns [props, offset].
RECURSIVE ReadImageProperties(_, _, _, _)
ReadImageProperties(buf, offset, j, props) ==
    IF ~(j < 9) THEN Return([props |-> props, offset |-> offset])
    ELSE IF j = 0
    THEN LET v == getInt32(buf, offset)
         IN  IF v.threw THEN v
             ELSE ReadImageProperties(buf, offset + 4, j + 1, Append(props, v.value))
    ELSE IF (j >= 1 /\ j <= 4) \/ (j >= 5 /\ j <= 7)
    THEN LET v == getFloat64(buf, offset)
         IN  IF v.threw THEN v
             ELSE ReadImageProperties(buf, offset + 8, j + 1, Append(props, v.value))
    ELSE LET v == getInt32(buf, offset)
         IN  IF v.threw THEN v
             ELSE ReadImageProperties(buf, offset + 4, j + 1, Append(props, v.value))

\* String.fromCharCode(c): a string is the sequence of its code units.
fromCharCode(c) == <<c>>

\* currentChar = getUint8(offset); while (currentChar !== 0) { name += char;
\* offset += 1; currentChar = getUint8(offset) }; offset += 1
\* Returns [name, offset].
RECURSIVE ReadName(_, _, _)
ReadName(buf, offset, name) ==
    LET currentChar == getUint8(buf, offset)
    IN  IF currentChar.threw THEN currentChar
        ELSE IF currentChar.value # 0
        THEN ReadName(buf, offset + 1, name \o fromCharCode(currentChar.value))
        ELSE Return([name |-> name, offset |-> offset + 1])

\* for (let k = 0; k < numPoints2D; k++) { x, y, id; xys.push; point3DIds.push }
\* Returns [xys, point3DIds, offset].
RECURSIVE ReadPoints2D(_, _, _, _, _, _)
ReadPoints2D(buf, offset, k, numPoints2D, xys, point3DIds) ==
    IF ~(k < numPoints2D)
    THEN Return([xys |-> xys, point3DIds |-> point3DIds, offset |-> offset])
    ELSE LET x  == getFloat64(buf, offset)
             y  == getFloat64(buf, offset + 8)
             id == getBigInt64(buf, offset + 16)
         IN  IF x.threw THEN x
             ELSE IF y.threw THEN y
             ELSE IF id.threw THEN id
             ELSE ReadPoints2D(buf, offset + 24, k + 1, numPoints2D,
                               Append(xys, <<x.value, y.value>>),
                               Append(point3DIds, id.value))

\* for (let i = 0; i < numRegImages; i++) { ... } return images
RECURSIVE ImagesLoop(_, _, _, _, _)
ImagesLoop(buf, numRegImages, i, offset, images) ==
    IF ~(i < numRegImages) THEN Return(images)
    ELSE
    LET read == ReadImageProperties(buf, offset, 0, <<>>)
    IN  IF read.threw THEN read
        ELSE
        LET props == read.value.props
            named == ReadName(buf, read.value.offset, <<>>)
        IN  IF named.threw THEN named
            ELSE
            LET numPoints2D == getBigUint64(buf, named.value.offset)
            IN  IF numPoints2D.threw THEN numPoints2D
                ELSE
                LET pts == ReadPoints2D(buf, named.value.offset + 8, 0,
                                        numPoints2D.value, <<>>, <<>>)
                IN  IF pts.threw THEN pts
                    ELSE ImagesLoop(buf, numRegImages, i + 1, pts.value.offset,
                            Put(images, props[1],
                                [id |-> props[1],
                                 qvec |-> SubSeq(props, 2, 5),
                                 tvec |-> SubSeq(props, 6, 8),
                                 camera_id |-> props[9],
                                 name |-> named.value.name,
                                 xys |-> pts.value.xys,
                                 point3D_ids |-> pts.value.point3DIds]))

\* The body of the try block of readImagesBinary.
ImagesBody(buffer) ==
    IF IsUndefined(buffer) THEN Throw(DataViewTypeError)
    ELSE LET buf == buffer.bytes
             numRegImages == getBigUint64(buf, 0)
         IN  IF numRegImages.threw THEN numRegImages
             ELSE ImagesLoop(buf, numRegImages.value, 0, 8, EmptyMap)

\* catch (e) { throw new Error("Error reading images.bin. Original error - " + e) }
ImagesCatch(e) == Throw(ErrorConcat("Error reading images.bin. Original error - ", e))

readImagesBinary(buffer) ==
    LET body == ImagesBody(buffer)
    IN  IF body.threw THEN ImagesCatch(body.error) ELSE body

(***************************************************************************)
(* The byte layouts of cameras.bin, images.bin and points3D.bin, used to   *)
(* build the buffers the decoders are run on.                              *)
(***************************************************************************)
\* Byte k (1 = least significant) of a value 0 <= v < 2^31.
ByteOfNat(v, k) ==
    CASE k = 1 -> v % 256
      [] k = 2 -> (v \div 256) % 256
      [] k = 3 -> (v \div 65536) % 256
      [] k = 4 -> (v \div 16777216) % 256
      [] OTHER -> 0

\* v as a little-endian two's-complement integer of the given width in bytes.
EncodeInt(v, width) ==
    [k \in 1..width |-> IF v >= 0 THEN ByteOfNat(v, k) ELSE 255 - ByteOfNat(0 - v - 1, k)]

EncodeFloat64(x) ==
    IF "float64" \in DOMAIN x THEN Float64Bytes[x.float64] ELSE x.float64bits

RECURSIVE Flatten(_)
Flatten(seqs) == IF Len(seqs) = 0 THEN <<>> ELSE Head(seqs) \o Flatten(Tail(seqs))

\* camera_id int32, model_id int32, width int64, height int64, params float64 each.
EncodeCamera(c) ==
    EncodeInt(c.id, 4) \o EncodeInt(c.model_id, 4) \o EncodeInt(c.width, 8)
        \o EncodeInt(c.height, 8)
        \o Flatten([k \in DOMAIN c.params |-> EncodeFloat64(c.params[k])])

\* image_id int32, qvec 4 float64, tvec 3 float64, camera_id int32, name bytes
\* and a zero byte, num_points2D uint64, then x, y float64 and point3D_id int64 each.
EncodeImage(im) ==
    EncodeInt(im.id, 4)
        \o Flatten([k \in DOMAIN im.qvec |-> EncodeFloat64(im.qvec[k])])
        \o Flatten([k \in DOMAIN im.tvec |-> EncodeFloat64(im.tvec[k])])
        \o EncodeInt(im.camera_id, 4)
        \o im.name \o <<0>>
        \o EncodeInt(im.num_points2D, 8)
        \o Flatten([k \in DOMAIN im.xys |->
                EncodeFloat64(im.xys[k][1]) \o EncodeFloat64(im.xys[k][2])
                    \o EncodeInt(im.point3D_ids[k], 8)])

\* point3D_id uint64, xyz 3 float64, rgb 3 uint8, error float64, track_length
\* uint64, then image_id int32 and point2D_idx int32 each.
EncodePoint3D(pt) ==
    EncodeInt(pt.id, 8)
        \o Flatten([k \in DOMAIN pt.xyz |-> EncodeFloat64(pt.xyz[k])])
        \o pt.rgb
        \o EncodeFloat64(pt.error)
        \o EncodeInt(pt.track_length, 8)
        \o Flatten([k \in DOMAIN pt.imageIds |->
                EncodeInt(pt.imageIds[k], 4) \o EncodeInt(pt.point2DIdxs[k], 4)])

EncodeRecord(f, rec) ==
    CASE f = "cameras"  -> EncodeCamera(rec)
      [] f = "images"   -> EncodeImage(rec)
      [] f = "points3D" -> EncodePoint3D(rec)

\* The uint64 count, then the records in order.
EncodeFile(f, declared, recs) ==
    EncodeInt(declared, 8) \o Flatten([k \in DOMAIN recs |-> EncodeRecord(f, recs[k])])

Prefix(bytes, n) == SubSeq(bytes, 1, n)

(***************************************************************************)
(* The inputs: record lists, the count written in the header, and the      *)
(* length the buffer is cut to.                                            *)
(***************************************************************************)
Files == {"points3D", "images", "cameras"}

\* Record ids: one that fits a byte and one that does not.
Ids == {1, 300}

UnknownModelIds == {11, 999, -1}

ParamValues ==
    <<F(1000), F(960), F(540), F(0), F(1), F(2), F(3), F(-1), F(1000), F(960), F(540), F(0)>>

\* A camera record as written to the file; a record with an unknown model_id
\* carries three params.
CameraInput(id, model_id, width, height) ==
    [id |-> id, model_id |-> model_id, width |-> width, height |-> height,
     params |-> IF model_id \in DOMAIN CAMERA_MODEL_IDS
                THEN SubSeq(ParamValues, 1, CAMERA_MODEL_IDS[model_id].num_params)
                ELSE SubSeq(ParamValues, 1, 3)]

ImageInput(id, camera_id, name, points) ==
    [id |-> id, qvec |-> <<F(1), F(0), F(0), F(0)>>, tvec |-> <<F(1), F(2), F(3)>>,
     camera_id |-> camera_id,
     name |-> name, num_points2D |-> Len(points),
     xys |-> [k \in DOMAIN points |-> points[k].xy],
     point3D_ids |-> [k \in DOMAIN points |-> points[k].point3D_id]]

Point3DInput(id, error, track) ==
    [id |-> id, xyz |-> <<F(1), F(2), F(3)>>, rgb |-> <<255, 128, 0>>, error |-> error,
     track_length |-> Len(track),
     imageIds |-> [k \in DOMAIN track |-> track[k].image_id],
     point2DIdxs |-> [k \in DOMAIN track |-> track[k].point2D_idx]]

SeqsUpTo(S, n) == UNION {[1..k -> S] : k \in 0..n}

\* Names: code units of "a" and ".".
Names == SeqsUpTo({97, 46}, MaxNameLen)

Points2D == {[xy |-> <<F(960), F(540)>>, point3D_id |-> -1], [xy |-> <<F(0), F(1)>>, point3D_id |-> 5]}

TrackEntries == {[image_id |-> 1, point2D_idx |-> 0], [image_id |-> 2, point2D_idx |-> 5]}

\* Every kind of record, for the single-record files.
AllRecords(f) ==
    CASE f = "cameras" ->
            {CameraInput(id, m, 1920, 1080) :
                id \in Ids, m \in (DOMAIN CAMERA_MODEL_IDS) \cup UnknownModelIds}
      [] f = "images" ->
            {ImageInput(id, 1, n, p) : id \in Ids, n \in Names, p \in SeqsUpTo(Points2D, MaxTrack)}
      [] f = "points3D" ->
            {Point3DInput(id, F(1), t) : id \in Ids, t \in SeqsUpTo(TrackEntries, MaxTrack)}

\* The records the multi-record files are made of.
ListRecords(f) ==
    CASE f = "cameras" ->
            {CameraInput(id, 0, 640, 480) : id \in Ids}
                \cup {CameraInput(id, 1, 1920, 1080) : id \in Ids}
      [] f = "images" ->
            {ImageInput(id, 1, <<>>, <<>>) : id \in Ids}
                \cup {ImageInput(id, 2, <<97>>, <<[xy |-> <<F(960), F(540)>>, point3D_id |-> -1]>>) : id \in Ids}
      [] f = "points3D" ->
            {Point3DInput(id, F(0), <<>>) : id \in Ids}
                \cup {Point3DInput(id, F(1), <<[image_id |-> 1, point2D_idx |-> 0]>>) : id \in Ids}

\* Camera records with a model_id the registry does not have.
UnknownModelRecords == {CameraInput(id, 999, 640, 480) : id \in Ids}

\* Files whose header count is the number of records (cut at any length).
RecordLists(f) ==
    SeqsUpTo(ListRecords(f), MaxRecords) \cup {<<r>> : r \in AllRecords(f)}

\* Files taken whole: a header count that may be one off, and for cameras.bin
\* records with an unknown model among the others.
WholeLists(f) ==
    IF f = "cameras" THEN SeqsUpTo(ListRecords(f) \cup UnknownModelRecords, MaxRecords)
    ELSE SeqsUpTo(ListRecords(f), MaxRecords)

FullBytes(f, in) == EncodeFile(f, in.declared, in.records)

\* The buffer handed to the decoder.
InputBuffer(f, in) == ArrayBuffer(Prefix(FullBytes(f, in), in.cut))

\* in is an input for file f.
IsInput(f, in) ==
    \/ \E recs \in RecordLists(f) :
         \E c \in 0..Len(EncodeFile(f, Len(recs), recs)) :
            in = [records |-> recs, declared |-> Len(recs), cut |-> c]
    \/ \E recs \in WholeLists(f) :
         \E d \in {n \in {Len(recs) - 1, Len(recs), Len(recs) + 1} : n >= 0} :
            in = [records |-> recs, declared |-> d, cut |-> Len(EncodeFile(f, d, recs))]

(***************************************************************************)
(* State.  file, input, buffer, pc, result: one decoder run on one buffer. *)
(* The rest is one call of COLMAPLoader.load: totalLoadedData, the state   *)
(* of the three FileLoader requests and of the LoadingManager, whether the *)
(* caller passed onProgress and onError, and the calls made to the         *)
(* caller's callbacks.  reported is the last (loaded, total) each request  *)
(* reported to its progress handler; decoderCalls lists the decoder calls   *)
(* made by the manager's onLoad, each with the files whose data was stored *)
(* when it was made.                                                       *)
(***************************************************************************)
VARIABLES file, input, buffer, pc, result,
          totalLoadedData, fetch, itemsLoaded, hasOnProgress, hasOnError,
          callbacks, reported, lastProgress, decoderCalls

decodeVars == <<file, input, buffer, pc, result>>

loadVars == <<totalLoadedData, fetch, itemsLoaded, hasOnProgress, hasOnError,
              callbacks, reported, lastProgress, decoderCalls>>

vars == <<decodeVars, loadVars>>

\* No load has been called.
NoLoad ==
    /\ totalLoadedData = [f \in Files |-> [total |-> 0, loaded |-> 0, data |-> Undefined]]
    /\ fetch = [f \in Files |-> "idle"]
    /\ itemsLoaded = 0
    /\ hasOnProgress = FALSE
    /\ hasOnError = FALSE
    /\ callbacks = <<>>
    /\ reported = [f \in Files |-> [total |-> 0, loaded |-> 0]]
    /\ lastProgress = Undefined
    /\ decoderCalls = <<>>

\* No decoder is run on its own.
NoDecode ==
    /\ file = "none"
    /\ input = Undefined
    /\ buffer = Undefined
    /\ pc = "idle"
    /\ result = Undefined

(***************************************************************************)
(* Running one decoder on one buffer.                                      *)
(***************************************************************************)
Init ==
    /\ file \in Files
    /\ IsInput(file, input)
    /\ buffer = InputBuffer(file, input)
    /\ pc = "ready"
    /\ result = Undefined
    /\ NoLoad

DecodeCameras ==
    /\ pc = "ready" /\ file = "cameras"
    /\ result' = readCamerasBinary(buffer)
    /\ pc' = "done"
    /\ UNCHANGED <<file, input, buffer, loadVars>>

DecodeImages ==
    /\ pc = "ready" /\ file = "images"
    /\ result' = readImagesBinary(buffer)
    /\ pc' = "done"
    /\ UNCHANGED <<file, input, buffer, loadVars>>

DecodePoints3D ==
    /\ pc = "ready" /\ file = "points3D"
    /\ result' = readPoints3DBinary(buffer)
    /\ pc' = "done"
    /\ UNCHANGED <<file, input, buffer, loadVars>>

Next == DecodeCameras \/ DecodeImages \/ DecodePoints3D

Spec == Init /\ [][Next]_vars

(***************************************************************************)
(* COLMAPLoader.load.  FileLoader and LoadingManager are three.js: each    *)
(* loader.load registers its url with the manager at once (itemStart), so  *)
(* the manager counts three items; a request ends by calling its onLoad or *)
(* its onError callback and then manager.itemEnd, and the manager runs its *)
(* onLoad when the last item has ended.                                    *)
(***************************************************************************)
\* The number of loader.load calls: ["points3D", "images", "cameras"].forEach
ItemsTotal == Cardinality(Files)

\* The error a failed request passes to onError.
FetchError(f) == [name |-> "Error", message |-> <<"fetch for ", f, ".bin", " failed">>]

OnLoadCall(data) == [callback |-> "onLoad", data |-> data]

OnErrorCall(e) == [callback |-> "onError", error |-> e]

\* onError?.(e) and the onError argument of loader.load: no call without it.
CallOnError(has, e) == IF has THEN <<OnErrorCall(e)>> ELSE <<>>

\* A call of a decoder: the files whose data is stored when it is made.
DecoderCall(decoder, tld) ==
    [decoder |-> decoder, stored |-> {f \in Files : ~IsUndefined(tld[f].data)}]

\* A faulty ManagerOnLoad: a failed cameras decode is not noticed.
ManagerOnLoadCamerasUnchecked(tld, has) ==
    LET images   == readImagesBinary(tld["images"].data)
        points3D == readPoints3DBinary(tld["points3D"].data)
        cameras  == readCamerasBinary(tld["cameras"].data)
        call1    == <<DecoderCall("readImagesBinary", tld)>>
        call2    == call1 \o <<DecoderCall("readPoints3DBinary", tld)>>
        call3    == call2 \o <<DecoderCall("readCamerasBinary", tld)>>
    IN  IF images.threw
        THEN [callbacks |-> CallOnError(has, images.error), decoderCalls |-> call1]
        ELSE IF points3D.threw
        THEN [callbacks |-> CallOnError(has, points3D.error), decoderCalls |-> call2]
        ELSE [callbacks |-> <<OnLoadCall([images |-> images.value,
                                          points3D |-> points3D.value,
                                          cameras |-> IF cameras.threw THEN EmptyMap
                                                      ELSE cameras.value])>>,
              decoderCalls |-> call3]

\* this.manager.onLoad: the decoder calls it makes, in order, and the calls it
\* makes to the caller's callbacks; a decoder that throws ends the try block.
\* The mesh and the camera poses are built from points3D and images and are
\* left out of the data.
ManagerOnLoad(tld, has) ==
    LET images   == readImagesBinary(tld["images"].data)
        points3D == readPoints3DBinary(tld["points3D"].data)
        cameras  == readCamerasBinary(tld["cameras"].data)
        call1    == <<DecoderCall("readImagesBinary", tld)>>
        call2    == call1 \o <<DecoderCall("readPoints3DBinary", tld)>>
        call3    == call2 \o <<DecoderCall("readCamerasBinary", tld)>>
    IN  IF images.threw
        THEN [callbacks |-> CallOnError(has, images.error), decoderCalls |-> call1]
        ELSE IF points3D.threw
        THEN [callbacks |-> CallOnError(has, points3D.error), decoderCalls |-> call2]
        ELSE IF cameras.threw
        THEN [callbacks |-> CallOnError(has, cameras.error), decoderCalls |-> call3]
        ELSE [callbacks |-> <<OnLoadCall([images |-> images.value,
                                          points3D |-> points3D.value,
                                          cameras |-> cameras.value])>>,
              decoderCalls |-> call3]

\* The buffers a request may deliver: a whole file, a cut file, and for
\* cameras.bin a file with an unknown model.
LoadBuffers(f) ==
    LET recs == CHOOSE l \in SeqsUpTo(ListRecords(f), 1) : Len(l) = 1
        whole == EncodeFile(f, 1, recs)
    IN  {ArrayBuffer(whole), ArrayBuffer(Prefix(whole, Len(whole) - 1))}
        \cup (IF f = "cameras"
              THEN {ArrayBuffer(EncodeFile(f, 1, <<CameraInput(1, 999, 640, 480)>>))}
              ELSE {})

\* manager.itemEnd: the manager's onLoad runs when every item has ended.
ItemEnd(loaded, tld, has) ==
    IF loaded = ItemsTotal THEN ManagerOnLoad(tld, has)
    ELSE [callbacks |-> <<>>, decoderCalls |-> <<>>]

InitLoad ==
    /\ totalLoadedData = [f \in Files |-> [total |-> 0, loaded |-> 0, data |-> Undefined]]
    /\ fetch = [f \in Files |-> "pending"]
    /\ itemsLoaded = 0
    /\ hasOnProgress \in BOOLEAN
    /\ hasOnError \in BOOLEAN
    /\ callbacks = <<>>
    /\ reported = [f \in Files |-> [total |-> 0, loaded |-> 0]]
    /\ lastProgress = Undefined
    /\ decoderCalls = <<>>
    /\ NoDecode

\* The onLoad callback of loader.load, then manager.itemEnd.
FetchLoaded(f, data) ==
    /\ fetch[f] = "pending"
    /\ fetch' = [fetch EXCEPT ![f] = "loaded"]
    /\ totalLoadedData' = [totalLoadedData EXCEPT ![f].data = data]
    /\ itemsLoaded' = itemsLoaded + 1
    /\ \E end \in {ItemEnd(itemsLoaded + 1,
                             [totalLoadedData EXCEPT ![f].data = data], hasOnError)} :
          /\ callbacks' = callbacks \o end.callbacks
          /\ decoderCalls' = decoderCalls \o end.decoderCalls
    /\ UNCHANGED <<hasOnProgress, hasOnError, reported, lastProgress, decodeVars>>

\* The onError callback of loader.load, then manager.itemEnd.
FetchFailed(f) ==
    /\ fetch[f] = "pending"
    /\ fetch' = [fetch EXCEPT ![f] = "failed"]
    /\ itemsLoaded' = itemsLoaded + 1
    /\ \E end \in {ItemEnd(itemsLoaded + 1, totalLoadedData, hasOnError)} :
          /\ callbacks' = callbacks \o CallOnError(hasOnError, FetchError(f)) \o end.callbacks
          /\ decoderCalls' = decoderCalls \o end.decoderCalls
    /\ UNCHANGED <<totalLoadedData, hasOnProgress, hasOnError, reported, lastProgress,
                   decodeVars>>

\* The progress handler's effect on totalLoadedData.
ProgressUpdate(tld, f, loaded, total) ==
    [tld EXCEPT ![f].total = total, ![f].loaded = loaded]

\* A faulty ProgressEvent: cameras.bin is left out of the sums.
ProgressEventTwoFiles(tld) ==
    [total  |-> tld["points3D"].total + tld["images"].total,
     loaded |-> tld["points3D"].loaded + tld["images"].loaded]

\* The event the progress handler passes to onProgress.
ProgressEvent(tld) ==
    [total  |-> tld["points3D"].total + tld["images"].total + tld["cameras"].total,
     loaded |-> tld["points3D"].loaded + tld["images"].loaded + tld["cameras"].loaded]

\* A request reports progress: the progress callback of loader.load.
FetchProgress(f, loaded, total) ==
    /\ fetch[f] = "pending"
    /\ reported' = [reported EXCEPT ![f] = [total |-> total, loaded |-> loaded]]
    /\ IF hasOnProgress
       THEN /\ totalLoadedData' = ProgressUpdate(totalLoadedData, f, loaded, total)
            /\ lastProgress' = ProgressEvent(totalLoadedData')
       ELSE UNCHANGED <<totalLoadedData, lastProgress>>
    /\ UNCHANGED <<fetch, itemsLoaded, hasOnProgress, hasOnError, callbacks, decoderCalls,
                   decodeVars>>

NextLoad ==
    \/ \E f \in Files : \E data \in LoadBuffers(f) : FetchLoaded(f, data)
    \/ \E f \in Files : FetchFailed(f)
    \/ \E f \in Files : \E loaded \in 0..MaxLoaded : \E total \in {0, MaxLoaded} :
          FetchProgress(f, loaded, total)

SpecLoad == InitLoad /\ [][NextLoad]_vars

(***************************************************************************)
(* Properties of the decoders (under Spec).                                *)
(***************************************************************************)
Range(seq) == {seq[k] : k \in DOMAIN seq}

Decoded == pc = "done"

\* The buffer is the whole file, not a proper prefix of it.
Whole == input.cut = Len(FullBytes(file, input))

\* The records the header count covers.
Declared == 1..(IF input.declared < Len(input.records) THEN input.declared ELSE Len(input.records))

KnownModel(rec) == \E k \in DOMAIN CAMERA_MODELS : CAMERA_MODELS[k].model_id = rec.model_id

RegistryEntry(rec) ==
    CAMERA_MODELS[CHOOSE k \in DOMAIN CAMERA_MODELS : CAMERA_MODELS[k].model_id = rec.model_id]

\* A file as the layout describes it: the header counts the records, and every
\* camera has a registry model.
WellFormed ==
    /\ input.declared = Len(input.records)
    /\ file = "cameras" => \A k \in DOMAIN input.records : KnownModel(input.records[k])

DistinctIds ==
    \A j, k \in DOMAIN input.records : input.records[j].id = input.records[k].id => j = k

\* The last of the counted records with the given id.
LastWithId(id) ==
    input.records[CHOOSE k \in Declared :
        /\ input.records[k].id = id
        /\ \A j \in Declared : input.records[j].id = id => j <= k]

\* C1: a well-formed buffer with at least one record, cut strictly before the
\* end of its last record, makes its decoder raise an error; no mapping is
\* returned.
C1_TruncatedBufferRaises ==
    (Decoded /\ WellFormed /\ Len(input.records) >= 1 /\ ~Whole) => result.threw

\* C1 witness: images.bin with two records, cut one byte short, has raised.
C1_Witness ==
    /\ Decoded /\ file = "images" /\ WellFormed /\ Len(input.records) = 2
    /\ input.cut = Len(FullBytes(file, input)) - 1
    /\ result.threw

\* C2: a counted camera record whose model_id is not one of 0..10 makes
\* readCamerasBinary raise, whatever precedes it; on the whole file the error is
\* the one raised at that record's registry lookup.
C2_UnknownModelRaises ==
    (Decoded /\ file = "cameras" /\ input.declared >= 1
        /\ \E k \in Declared : input.records[k].model_id \notin 0..10)
    => /\ result.threw
       /\ Whole => result.error = UndefinedPropertyError

\* C2 witness: a valid record, then one with model_id 999, on the whole file.
C2_Witness ==
    /\ Decoded /\ file = "cameras" /\ Whole /\ input.declared = 2
    /\ Len(input.records) = 2
    /\ input.records[1].model_id = 1 /\ input.records[2].model_id = 999
    /\ result.threw

CountMismatch == Throw([name |-> "Error", message |-> <<"Number of cameras does not match">>])

\* C3: a mapping returned by readCamerasBinary has num_cameras entries; when all
\* counted records are read and their ids make fewer entries than num_cameras,
\* the count-mismatch error is raised.
C3_CameraCountMatches ==
    (Decoded /\ file = "cameras")
    => /\ ~result.threw => Cardinality(DOMAIN result.value) = input.declared
       /\ ( /\ Whole /\ input.declared <= Len(input.records)
            /\ \A k \in Declared : KnownModel(input.records[k])
            /\ Cardinality({input.records[k].id : k \in Declared}) # input.declared )
          => result = CountMismatch

\* C3 witness: a header count of 2 and a returned mapping.
C3_Witness ==
    /\ Decoded /\ file = "cameras" /\ input.declared = 2
    /\ ~result.threw /\ Cardinality(DOMAIN result.value) = 2

\* Two counted records of a whole, well-formed cameras.bin share an id.
DuplicateCameraIds ==
    /\ file = "cameras" /\ Whole /\ WellFormed
    /\ \E j, k \in DOMAIN input.records : j # k /\ input.records[j].id = input.records[k].id

\* What a camera record decodes to.
ExpectedCamera(c) ==
    [id |-> c.id, model |-> RegistryEntry(c).model_name, width |-> c.width,
     height |-> c.height, params |-> c.params]

\* C4 as stated: with two or more records of the same camera id, decoding
\* produces a mapping in which the id maps to the last such record.
C4_LastWriteWinsReturned ==
    (Decoded /\ DuplicateCameraIds)
    => /\ ~result.threw
       /\ \A k \in DOMAIN input.records :
            result.value[input.records[k].id] = ExpectedCamera(LastWithId(input.records[k].id))

\* C4 amended: with two or more records of the same camera id the later record
\* overwrites the earlier entry, the mapping has fewer entries than num_cameras,
\* and readCamerasBinary raises the count-mismatch error instead of returning.
C4_DuplicateIdsRaise ==
    (Decoded /\ DuplicateCameraIds) => result = CountMismatch

\* C4 witness: two different records with the same id have been decoded.
C4_Witness ==
    /\ Decoded /\ DuplicateCameraIds /\ Len(input.records) = 2
    /\ input.records[1] # input.records[2]
    /\ result.threw

\* C5: every camera of a returned mapping has as many params as the registry
\* entry of its record's model_id says, and that entry's model_name.
C5_ParamsMatchRegistry ==
    (Decoded /\ file = "cameras" /\ ~result.threw)
    => \A id \in DOMAIN result.value :
          /\ Len(result.value[id].params) = RegistryEntry(LastWithId(id)).num_params
          /\ result.value[id].model = RegistryEntry(LastWithId(id)).model_name

\* C5 witness: a FULL_OPENCV camera (12 params) is in a returned mapping.
C5_Witness ==
    /\ Decoded /\ file = "cameras" /\ ~result.threw
    /\ \E id \in DOMAIN result.value :
          result.value[id].model = "FULL_OPENCV" /\ Len(result.value[id].params) = 12

ExpectedImage(im) ==
    [id |-> im.id, qvec |-> im.qvec, tvec |-> im.tvec, camera_id |-> im.camera_id,
     name |-> im.name, xys |-> im.xys, point3D_ids |-> im.point3D_ids]

ExpectedPoint3D(pt) ==
    [id |-> pt.id, xyz |-> pt.xyz, rgb |-> pt.rgb, error |-> pt.error,
     imageIds |-> pt.imageIds, point2DIdxs |-> pt.point2DIdxs]

Expected(f, rec) ==
    CASE f = "cameras"  -> ExpectedCamera(rec)
      [] f = "images"   -> ExpectedImage(rec)
      [] f = "points3D" -> ExpectedPoint3D(rec)

\* C6: records with pairwise distinct ids, written in the file's layout and
\* decoded, come back as a mapping whose keys are the ids and whose values are
\* the records, field for field.
C6_RoundTrip ==
    (Decoded /\ Whole /\ WellFormed /\ DistinctIds)
    => /\ ~result.threw
       /\ DOMAIN result.value = {input.records[k].id : k \in DOMAIN input.records}
       /\ \A k \in DOMAIN input.records :
            result.value[input.records[k].id] = Expected(file, input.records[k])

\* C6 witness: two images, one with an empty name and no points, one with a
\* point3D_id of -1, have been decoded.
C6_Witness ==
    /\ Decoded /\ file = "images" /\ Whole /\ WellFormed /\ DistinctIds
    /\ Len(input.records) = 2
    /\ ~result.threw
    /\ \E id \in DOMAIN result.value :
          result.value[id].name = <<>> /\ result.value[id].xys = <<>>
    /\ \E id \in DOMAIN result.value : result.value[id].point3D_ids = <<-1>>

\* The file named in one piece of an error message.
FileNamedIn(piece) ==
    CASE piece = "Error reading images.bin. Original error - "   -> "images"
      [] piece = "Error reading points3D.bin. Original error - " -> "points3D"
      [] piece = "Number of cameras does not match"              -> "cameras"
      [] OTHER -> "none"

\* C8: an error raised by a decoder names the file that failed to decode.
C8_ErrorNamesFile ==
    (Decoded /\ result.threw)
    => \E k \in DOMAIN result.error.message : FileNamedIn(result.error.message[k]) = file

\* C10: in a returned mapping an image's xys and point3D_ids both have the
\* length num_points2D of its record, and a point's imageIds and point2DIdxs
\* both the length track_length; a count of 0 gives empty arrays.
C10_ParallelArrayLengths ==
    (Decoded /\ ~result.threw)
    => \A id \in DOMAIN result.value :
          /\ file = "images" =>
                /\ Len(result.value[id].xys) = LastWithId(id).num_points2D
                /\ Len(result.value[id].point3D_ids) = LastWithId(id).num_points2D
          /\ file = "points3D" =>
                /\ Len(result.value[id].imageIds) = LastWithId(id).track_length
                /\ Len(result.value[id].point2DIdxs) = LastWithId(id).track_length

\* C10 witness: a returned mapping holds a point with track_length 0 and one
\* with a track.
C10_Witness ==
    /\ Decoded /\ file = "points3D" /\ ~result.threw
    /\ \E id \in DOMAIN result.value :
          LastWithId(id).track_length = 0 /\ result.value[id].imageIds = <<>>
                /\ result.value[id].point2DIdxs = <<>>
    /\ \E id \in DOMAIN result.value : Len(result.value[id].imageIds) >= 1

(***************************************************************************)
(* Properties of COLMAPLoader.load (under SpecLoad).                       *)
(***************************************************************************)
AllFetched == \A f \in Files : fetch[f] = "loaded"

DecodeOf(f) ==
    CASE f = "images"   -> readImagesBinary(totalLoadedData[f].data)
      [] f = "points3D" -> readPoints3DBinary(totalLoadedData[f].data)
      [] f = "cameras"  -> readCamerasBinary(totalLoadedData[f].data)

OnLoadCalled == \E k \in DOMAIN callbacks : callbacks[k].callback = "onLoad"

\* C7: onLoad is called only when the three fetches and the three decodes
\* succeeded; a failed fetch or (once the three files are in) a failed decode
\* leaves onLoad uncalled and is passed to the caller's onError.
C7_OnLoadOnlyOnFullSuccess ==
    /\ OnLoadCalled => AllFetched /\ \A f \in Files : ~DecodeOf(f).threw
    /\ \A f \in Files : fetch[f] = "failed" =>
          /\ ~OnLoadCalled
          /\ hasOnError => OnErrorCall(FetchError(f)) \in Range(callbacks)
    /\ (AllFetched /\ \E f \in Files : DecodeOf(f).threw) =>
          /\ ~OnLoadCalled
          /\ hasOnError =>
                \E f \in Files : DecodeOf(f).threw
                                   /\ OnErrorCall(DecodeOf(f).error) \in Range(callbacks)

\* C7 witness: the three files were fetched, cameras.bin failed to decode, and
\* onError got the error.
C7_Witness ==
    /\ AllFetched /\ hasOnError
    /\ ~DecodeOf("images").threw /\ ~DecodeOf("points3D").threw /\ DecodeOf("cameras").threw
    /\ callbacks = <<OnErrorCall(DecodeOf("cameras").error)>>

\* C9: the event passed to onProgress carries the sums, over the three files,
\* of the loaded and total byte counts each last reported (0 before a file's
\* first report).
C9_ProgressIsSum ==
    ~IsUndefined(lastProgress)
    => /\ lastProgress.loaded = reported["points3D"].loaded + reported["images"].loaded
                                   + reported["cameras"].loaded
       /\ lastProgress.total = reported["points3D"].total + reported["images"].total
                                   + reported["cameras"].total

\* C9 witness: the three files have reported and an event carries their sum.
C9_Witness ==
    /\ \A f \in Files : reported[f].loaded = MaxLoaded /\ reported[f].total = MaxLoaded
    /\ ~IsUndefined(lastProgress)
    /\ lastProgress.loaded = 3 * MaxLoaded

\* C11: when a decoder is called, the data of points3D, images and cameras
\* has each been stored by a successful fetch.
C11_DecodersCalledWithAllData ==
    \A k \in DOMAIN decoderCalls : decoderCalls[k].stored = Files

\* C12: onLoad and onError together are called at most once per load.
C12_AtMostOneTerminalCallback == Len(callbacks) <= 1

====
